---------------------------- MODULE Spec2Model ----------------------------
(***************************************************************************)
(* Model of chatwise_to_nowledge.py: the import pipeline                   *)
(*   format detection -> parse -> remote listing -> dedupe -> driver.      *)
(*                                                                         *)
(* Strings whose characters matter (message content, response text) are    *)
(* sequences of one-character strings; identifiers are sequences of tokens *)
(* (<<"chatwise-", "a">> is "chatwise-a", <<>> is the empty string).       *)
(* A JSON key that is missing is ABSENT, a JSON null / Python None is NULL.*)
(* import_date (datetime.now()) is written into the record and read by no  *)
(* operation of the program; it is left out of the record.                 *)
(***************************************************************************)
EXTENDS Integers, Sequences, FiniteSets

VARIABLES
    pc,              \* position of main(): format, parse, fetch, mode, manual, auto, ...
    exc,             \* the uncaught exception that ended the run: [at, type]
    sentinel,        \* chatwise-export-verison.txt exists in the directory
    files,           \* sorted(work_dir.glob("chat-*.json")): the files' contents
    fi,              \* index of the next file of main()'s parse loop
    chats,           \* main(): chats
    chat_src,        \* for each record of chats, the index of the file it was parsed from
    warned,          \* indexes of the files parse_chat_file printed a failure for
    all_threads,     \* fetch_existing_threads(): all_threads
    offset,          \* fetch_existing_threads(): offset
    requests,        \* the GET requests sent, in order: [limit, offset]
    responses,       \* what the server answered to each of them, in order
    fetch_warning,   \* the warning fetch_existing_threads printed ("" when none)
    existing_ids,    \* main(): existing_ids
    post_resp,       \* what the server answers to the POST of import_to_nowledge
    post_result,     \* what import_to_nowledge returned for it
    mode,            \* main(): mode ("1" manual, "2" auto, "q")
    di,              \* index of the record the driver's loop is at
    imported,        \* manual_mode counters
    skipped,
    duplicates,
    success_count,   \* auto_mode counters
    fail_count,
    duplicate_count,
    errors,          \* auto_mode: errors, (title, message) pairs
    created,         \* indexes of the records passed to import_to_nowledge, in order
    prompted,        \* indexes of the records Prompt.ask was called for, in order
    quit_at          \* index of the record the user answered "q" at (0: none)

parseVars  == <<sentinel, files, fi, chats, chat_src, warned>>
fetchVars  == <<all_threads, offset, requests, responses, fetch_warning, existing_ids>>
postVars   == <<post_resp, post_result>>
driverVars == <<mode, di, imported, skipped, duplicates, success_count, fail_count,
                duplicate_count, errors, created, prompted, quit_at>>
vars == <<pc, exc, parseVars, fetchVars, postVars, driverVars>>

ABSENT == "<absent>"
NULL   == "<null>"

(***************************************************************************)
(* Bounds of the model.                                                    *)
(***************************************************************************)
MaxFiles == 2      \* chat files in the directory

----------------------------------------------------------------------------
(***************************************************************************)
(* str.strip(): leading and trailing whitespace removed.                   *)
(***************************************************************************)
IsSpace(c) == c \in {" ", "\n", "\t"}

RECURSIVE LStrip(_)
LStrip(s) ==
    IF s = <<>> THEN s
    ELSE IF IsSpace(Head(s)) THEN LStrip(Tail(s)) ELSE s

RECURSIVE RStrip(_)
RStrip(s) ==
    IF s = <<>> THEN s
    ELSE IF IsSpace(s[Len(s)]) THEN RStrip(SubSeq(s, 1, Len(s) - 1)) ELSE s

\* variant: the content is kept as it is read
StripNothing(s) == s

Strip(s) == RStrip(LStrip(s))

(***************************************************************************)
(* The conversation files the model reads.  A file is                      *)
(*   kind      "notutf8" (bytes that do not decode), "badjson" (not JSON), *)
(*             "array" / "number" (JSON, but no object), "object"          *)
(*   id, title, createdAt   the value of the key, ABSENT or NULL           *)
(*   messages  [t: "absent" | "null" | "list", l: the list]                *)
(* and a message is [content: [t: "absent" | "null" | "str", s], role].    *)
(***************************************************************************)
Str(s)     == [t |-> "str", s |-> s]
NoContent  == [t |-> "absent", s |-> <<>>]
NullContent == [t |-> "null", s |-> <<>>]
Msg(c, r)  == [content |-> c, role |-> r]
MsgList(l) == [t |-> "list", l |-> l]

MessageLists ==
    { [t |-> "absent", l |-> <<>>],
      [t |-> "null", l |-> <<>>],
      MsgList(<<>>),
      MsgList(<<Msg(NoContent, "user")>>),
      MsgList(<<Msg(Str(<<" ", " ">>), "user")>>),
      MsgList(<<Msg(Str(<<>>), ABSENT), Msg(Str(<<" ", "\n", "\t">>), "assistant")>>),
      MsgList(<<Msg(Str(<<" ", "a", " ">>), "assistant")>>),
      MsgList(<<Msg(Str(<<" ">>), "user"), Msg(Str(<<"a", " ", "b">>), ABSENT),
                Msg(NoContent, "user"), Msg(Str(<<"b", "\n">>), "assistant")>>),
      MsgList(<<Msg(NullContent, "user")>>),
      MsgList(<<Msg(Str(<<"a">>), "user"), Msg(NullContent, "assistant")>>) }

ObjectFile(id, title, createdAt, messages) ==
    [kind |-> "object", id |-> id, title |-> title, model |-> "gpt",
     createdAt |-> createdAt, updatedAt |-> ABSENT, messages |-> messages]

OtherFile(kind) ==
    [kind |-> kind, id |-> ABSENT, title |-> ABSENT, model |-> ABSENT,
     createdAt |-> ABSENT, updatedAt |-> ABSENT,
     messages |-> [t |-> "absent", l |-> <<>>]]

Files ==
    { ObjectFile(id, "T", c, m) :
        id \in {ABSENT, "a"}, c \in {ABSENT, "2024-01-01"}, m \in MessageLists }
    \cup { ObjectFile("b", ABSENT, "2024-01-01",
                      MsgList(<<Msg(Str(<<"a">>), ABSENT)>>)) }
    \cup { OtherFile(k) : k \in {"notutf8", "badjson", "array", "number"} }

RECURSIVE SeqsUpTo(_, _)
SeqsUpTo(S, n) ==
    IF n = 0 THEN { <<>> }
    ELSE LET shorter == SeqsUpTo(S, n - 1)
         IN  shorter \cup { Append(s, x) : s \in { t \in shorter : Len(t) = n - 1 }, x \in S }

Directories == SeqsUpTo(Files, MaxFiles)

(***************************************************************************)
(* is_chatwise_format on the file glob() lists first.                      *)
(*   "yes" / "no", or the exception it does not catch.                     *)
(***************************************************************************)
FirstFileFormat(f) ==
    CASE f.kind = "notutf8" -> "UnicodeDecodeError"
      [] f.kind = "badjson" -> "no"
      [] f.kind = "array"   -> "no"
      [] f.kind = "number"  -> "TypeError"
      [] OTHER ->
           IF f.id # ABSENT /\ f.title # ABSENT /\ f.messages.t # "absent"
           THEN "yes" ELSE "no"

(***************************************************************************)
(* parse_chat_file: the loop over the messages.  A content that is no      *)
(* string has no strip(): AttributeError.                                  *)
(***************************************************************************)
RECURSIVE FilterMessages(_, _)
FilterMessages(l, acc) ==
    IF l = <<>> THEN [ok |-> TRUE, msgs |-> acc]
    ELSE LET msg == Head(l)
         IN  IF msg.content.t = "null"
             THEN [ok |-> FALSE, msgs |-> acc]
             ELSE LET content == Strip(IF msg.content.t = "absent" THEN <<>>
                                       ELSE msg.content.s)
                  IN  IF content = <<>>
                      THEN FilterMessages(Tail(l), acc)
                      ELSE FilterMessages(Tail(l),
                             Append(acc, [content |-> content,
                                          role |-> IF msg.role = ABSENT THEN "user"
                                                   ELSE msg.role]))

Get(v) == IF v = ABSENT THEN NULL ELSE v

Raise(e)  == [tag |-> "raise", exc |-> e]
None(w)   == [tag |-> "none", warn |-> w]
Record(r) == [tag |-> "record", rec |-> r]

(***************************************************************************)
(* parse_chat_file: a record, None (with or without the printed failure),  *)
(* or the exception that `except (json.JSONDecodeError, KeyError)` lets    *)
(* through.                                                                *)
(***************************************************************************)
ParseChatFile(f) ==
    CASE f.kind = "notutf8" -> Raise("UnicodeDecodeError")
      [] f.kind = "badjson" -> None(TRUE)
      [] f.kind \in {"array", "number"} -> Raise("AttributeError")
      [] OTHER ->
           IF f.messages.t = "null" THEN Raise("TypeError")
           ELSE LET m == FilterMessages(f.messages.l, <<>>)
                IN  IF ~m.ok THEN Raise("AttributeError")
                    ELSE IF m.msgs = <<>> THEN None(FALSE)
                    ELSE IF f.id = ABSENT THEN None(TRUE)
                    ELSE Record([thread_id |-> <<"chatwise-", f.id>>,
                                 title |-> IF f.title = ABSENT THEN "Untitled"
                                           ELSE f.title,
                                 messages |-> m.msgs,
                                 source |-> "chatwise",
                                 metadata |-> [original_id |-> f.id,
                                               model |-> Get(f.model),
                                               created_at |-> Get(f.createdAt),
                                               updated_at |-> Get(f.updatedAt)]])


----------------------------------------------------------------------------
(***************************************************************************)
(* main(), lines 305-341: format check, parse loop, table of the records.  *)
(***************************************************************************)
NoException == [at |-> "", type |-> ""]

Abort(where, e) == pc' = "aborted" /\ exc' = [at |-> where, type |-> e]

\* is_chatwise_format(work_dir): the sentinel file, else the first file glob() lists
\* (in no particular order: any file of the directory).
CheckFormat ==
    /\ pc = "format"
    /\ \/ /\ sentinel
          /\ pc' = "parse" /\ exc' = exc
       \/ /\ ~sentinel /\ files = <<>>
          /\ pc' = "exit1" /\ exc' = exc
       \/ /\ ~sentinel
          /\ \E i \in 1..Len(files) :
               LET r == FirstFileFormat(files[i])
               IN  CASE r = "yes" -> pc' = "parse" /\ exc' = exc
                     [] r = "no"  -> pc' = "exit1" /\ exc' = exc
                     [] OTHER     -> Abort("format", r)
    /\ UNCHANGED <<parseVars, fetchVars, postVars, driverVars>>

\* one iteration of `for file in chat_files`
ParseFile ==
    /\ pc = "parse" /\ fi <= Len(files)
    /\ LET r == ParseChatFile(files[fi])
       IN  CASE r.tag = "raise" ->
                  /\ Abort("parse", r.exc)
                  /\ UNCHANGED <<fi, chats, chat_src, warned>>
             [] r.tag = "none" ->
                  /\ fi' = fi + 1
                  /\ warned' = IF r.warn THEN Append(warned, fi) ELSE warned
                  /\ UNCHANGED <<pc, exc, chats, chat_src>>
             [] OTHER ->
                  /\ fi' = fi + 1
                  /\ chats' = Append(chats, r.rec)
                  /\ chat_src' = Append(chat_src, fi)
                  /\ UNCHANGED <<pc, exc, warned>>
    /\ UNCHANGED <<sentinel, files, fetchVars, postVars, driverVars>>

\* chat.get("metadata", {}).get("created_at", "")[:10]: the key is always there,
\* so a record without createdAt gives None[:10].
TableRaises(cs) == \E i \in 1..Len(cs) : cs[i].metadata.created_at = NULL

\* after the loop: `if not chats: sys.exit(0)`, then the table of the records
ParseDone ==
    /\ pc = "parse" /\ fi > Len(files)
    /\ IF chats = <<>> THEN pc' = "exit0" /\ exc' = exc
       ELSE IF TableRaises(chats) THEN Abort("table", "TypeError")
       ELSE pc' = "fetch" /\ exc' = exc
    /\ UNCHANGED <<parseVars, fetchVars, postVars, driverVars>>

----------------------------------------------------------------------------
(***************************************************************************)
(* fetch_existing_threads and main()'s existing_ids, lines 36-69, 343-347. *)
(*                                                                         *)
(* What the server may answer to one GET /threads:                         *)
(*   kind    "response", or the exception requests.get raises              *)
(*   status  the status code of a response                                 *)
(*   body    "object" (a JSON object), "invalid" (response.json() raises)  *)
(*   threads [t: "absent" | "list", l]: the object's "threads"             *)
(*   has_more  "absent" (no pagination.has_more), "true", "false"          *)
(* A thread entry is [has_id, id].                                         *)
(***************************************************************************)
Limit    == 100
StatusOK == 200
MaxPages == 3      \* GET requests of one listing

Thread(id) == [has_id |-> TRUE, id |-> id]
NoIdThread == [has_id |-> FALSE, id |-> <<>>]

Pages ==
    { <<>>,
      <<Thread(<<"chatwise-", "a">>)>>,
      <<Thread(<<"chatwise-", "b">>), NoIdThread>>,
      <<Thread(<<"other">>), Thread(<<"chatwise-", "a">>)>> }

ListAnswer(kind, status, body, threads, has_more) ==
    [kind |-> kind, status |-> status, body |-> body, threads |-> threads,
     has_more |-> has_more]

NoThreads == [t |-> "absent", l |-> <<>>]

ListResponses ==
    { ListAnswer("response", StatusOK, "object", th, hm) :
        th \in {NoThreads} \cup { [t |-> "list", l |-> p] : p \in Pages },
        hm \in {"absent", "true", "false"} }
    \cup { ListAnswer("response", StatusOK, "invalid", NoThreads, "absent") }
    \cup { ListAnswer("response", st, "object", NoThreads, "absent") : st \in {201, 500} }
    \cup { ListAnswer(k, 0, "invalid", NoThreads, "absent") :
             k \in {"ConnectionError", "Timeout", "OtherException"} }

\* how one iteration of `while True` ends: "more" (offset += limit), "last" (break
\* on has_more), or the warning that is printed
PageOutcome(r) ==
    CASE r.kind = "ConnectionError" -> "conn"
      [] r.kind # "response"        -> "exc"
      [] r.status # StatusOK        -> "status"
      [] r.body # "object"          -> "exc"
      [] r.has_more = "true"        -> "more"
      [] OTHER                      -> "last"

\* data.get("threads", [])
ThreadsOf(r) == IF r.threads.t = "absent" THEN <<>> ELSE r.threads.l

\* variant: the offset is not advanced
NextOffsetStuck(off) == off

NextOffset(off) == off + Limit

\* {t.get("id", "") for t in existing_threads}
ExistingIds(threads) ==
    { IF threads[i].has_id THEN threads[i].id ELSE <<>> : i \in 1..Len(threads) }

\* `return all_threads`, and main() up to the choice of the mode
FetchReturn(threads, warning) ==
    /\ all_threads' = threads
    /\ fetch_warning' = warning
    /\ existing_ids' = ExistingIds(threads)
    /\ pc' = "mode"
    /\ UNCHANGED <<exc, offset>>

\* an iteration whose answer says has_more
FetchMore ==
    /\ pc = "fetch" /\ Len(requests) < MaxPages
    /\ \E r \in ListResponses :
         /\ PageOutcome(r) = "more"
         /\ requests' = Append(requests, [limit |-> Limit, offset |-> offset])
         /\ responses' = Append(responses, r)
         /\ all_threads' = all_threads \o ThreadsOf(r)
         /\ offset' = NextOffset(offset)
    /\ UNCHANGED <<pc, exc, fetch_warning, existing_ids, parseVars, postVars, driverVars>>

\* the iteration whose answer has no has_more: break, return
FetchLast ==
    /\ pc = "fetch" /\ Len(requests) < MaxPages
    /\ \E r \in ListResponses :
         /\ PageOutcome(r) = "last"
         /\ requests' = Append(requests, [limit |-> Limit, offset |-> offset])
         /\ responses' = Append(responses, r)
         /\ FetchReturn(all_threads \o ThreadsOf(r), "")
    /\ UNCHANGED <<parseVars, postVars, driverVars>>

\* variant: a failed listing returns nothing
FetchFailsEmpty ==
    /\ pc = "fetch" /\ Len(requests) < MaxPages
    /\ \E r \in ListResponses :
         /\ PageOutcome(r) \in {"conn", "exc", "status"}
         /\ requests' = Append(requests, [limit |-> Limit, offset |-> offset])
         /\ responses' = Append(responses, r)
         /\ FetchReturn(<<>>, PageOutcome(r))
    /\ UNCHANGED <<parseVars, postVars, driverVars>>

\* an iteration that fails: a status other than 200 (break), or an exception
\* (caught outside the loop); what was accumulated is returned
FetchFails ==
    /\ pc = "fetch" /\ Len(requests) < MaxPages
    /\ \E r \in ListResponses :
         /\ PageOutcome(r) \in {"conn", "exc", "status"}
         /\ requests' = Append(requests, [limit |-> Limit, offset |-> offset])
         /\ responses' = Append(responses, r)
         /\ FetchReturn(all_threads, PageOutcome(r))
    /\ UNCHANGED <<parseVars, postVars, driverVars>>

----------------------------------------------------------------------------
(***************************************************************************)
(* import_to_nowledge, lines 140-160.                                      *)
(*                                                                         *)
(* What the server may answer to one POST /threads:                        *)
(*   kind    "response", or the exception requests.post raises             *)
(*   status  the status code of a response                                 *)
(*   json    what response.json() gives: "thread_id" ({"thread": {"id":    *)
(*           ..}}), "thread_noid" ({"thread": {}}), "no_thread" ({}),      *)
(*           "thread_null" ({"thread": null}), "array" (no object),        *)
(*           "invalid" (it raises)                                         *)
(*   text    response.text, a sequence of character codes                  *)
(* The result is [success, message]; a message is [kind, status, text].    *)
(***************************************************************************)
TextCut == 200

Text(n) == [i \in 1..n |-> i]

TextLens == {0, 3, TextCut - 1, TextCut, TextCut + 1, TextCut + 50}

PostAnswer(kind, status, json, text) ==
    [kind |-> kind, status |-> status, json |-> json, text |-> text]

PostStatuses == {200, 201, 204, 404, 500}

JsonKinds == {"thread_id", "thread_noid", "no_thread", "thread_null", "array", "invalid"}

PostExceptions == {"ConnectionError", "ConnectTimeout", "ReadTimeout", "OtherException"}

CreateResponses ==
    { PostAnswer("response", st, j, Text(n)) :
        st \in PostStatuses, j \in JsonKinds, n \in TextLens }
    \cup { PostAnswer(k, 0, "invalid", <<>>) : k \in PostExceptions }

Message(kind, status, text) == [kind |-> kind, status |-> status, text |-> text]

Take(s, n) == SubSeq(s, 1, IF Len(s) < n THEN Len(s) ELSE n)

\* variant: any 2xx status
IsSuccessStatus2xx(status) == status >= 200 /\ status < 300

\* response.status_code == 200
IsSuccessStatus(status) == status = StatusOK

ImportToNowledge(r) ==
    CASE r.kind \in {"ConnectionError", "ConnectTimeout"} ->
           \* ConnectTimeout is a ConnectionError, and that clause comes first
           [success |-> FALSE, message |-> Message("connection", 0, <<>>)]
      [] r.kind = "ReadTimeout" ->
           [success |-> FALSE, message |-> Message("timeout", 0, <<>>)]
      [] r.kind = "OtherException" ->
           [success |-> FALSE, message |-> Message("unknown", 0, <<>>)]
      [] OTHER ->
           IF IsSuccessStatus(r.status)
           THEN CASE r.json = "thread_id" ->
                       [success |-> TRUE, message |-> Message("created", 0, <<"srv-id">>)]
                  [] r.json \in {"thread_noid", "no_thread"} ->
                       [success |-> TRUE, message |-> Message("created", 0, <<"unknown">>)]
                  [] OTHER ->
                       \* response.json() or .get() raises: `except Exception`
                       [success |-> FALSE, message |-> Message("unknown", 0, <<>>)]
           ELSE [success |-> FALSE,
                 message |-> Message("api_error", r.status, Take(r.text, TextCut))]

NoResult == [success |-> FALSE, message |-> Message("", 0, <<>>)]

\* one call of import_to_nowledge
Post ==
    /\ pc = "post"
    /\ post_result' = ImportToNowledge(post_resp)
    /\ pc' = "posted"
    /\ UNCHANGED <<exc, post_resp, parseVars, fetchVars, driverVars>>

----------------------------------------------------------------------------
(***************************************************************************)
(* main()'s choice of the mode and the two drivers, lines 182-268, 349-375.*)
(***************************************************************************)
MaxChats == 3      \* records handed to a driver

\* the answers the server gives to the drivers' POSTs
DriverResponses ==
    { PostAnswer("response", 200, "thread_id", Text(3)),
      PostAnswer("response", 201, "thread_id", Text(3)),
      PostAnswer("response", 500, "invalid", Text(3)),
      PostAnswer("ConnectionError", 0, "invalid", <<>>),
      PostAnswer("ReadTimeout", 0, "invalid", <<>>),
      PostAnswer("OtherException", 0, "invalid", <<>>) }

\* variant: the source id, without the prefix, is looked up
IsDuplicateByOriginalId(chat, ids) == <<chat.metadata.original_id>> \in ids

\* chat["thread_id"] in existing_ids
IsDuplicate(chat, ids) == chat.thread_id \in ids

\* --auto, --manual, or the prompt "1" / "2" / "q"
ChooseMode ==
    /\ pc = "mode"
    /\ \E m \in {"1", "2", "q"} :
         /\ mode' = m
         /\ pc' = CASE m = "1" -> "manual" [] m = "2" -> "auto" [] OTHER -> "exit0"
    /\ UNCHANGED <<exc, di, imported, skipped, duplicates, success_count, fail_count,
                   duplicate_count, errors, created, prompted, quit_at,
                   parseVars, fetchVars, postVars>>

autoVars == <<success_count, fail_count, duplicate_count, errors>>
manualVars == <<imported, skipped, duplicates>>

\* manual_mode: a record whose thread_id is in existing_ids
ManualDuplicate ==
    /\ pc = "manual" /\ di <= Len(chats)
    /\ IsDuplicate(chats[di], existing_ids)
    /\ duplicates' = duplicates + 1
    /\ di' = di + 1
    /\ UNCHANGED <<pc, exc, mode, imported, skipped, autoVars, created, prompted, quit_at,
                   parseVars, fetchVars, postVars>>

\* variant: the record quit at is counted as skipped
ManualQuitCounted ==
    /\ pc = "manual" /\ di <= Len(chats)
    /\ ~IsDuplicate(chats[di], existing_ids)
    /\ prompted' = Append(prompted, di)
    /\ quit_at' = di
    /\ skipped' = skipped + 1
    /\ pc' = "done"
    /\ UNCHANGED <<exc, mode, di, imported, duplicates, autoVars, created,
                   parseVars, fetchVars, postVars>>

\* variant: "q" skips the record and the loop goes on
ManualQuitGoesOn ==
    /\ pc = "manual" /\ di <= Len(chats)
    /\ ~IsDuplicate(chats[di], existing_ids)
    /\ prompted' = Append(prompted, di)
    /\ quit_at' = di
    /\ di' = di + 1
    /\ UNCHANGED <<pc, exc, mode, manualVars, autoVars, created,
                   parseVars, fetchVars, postVars>>

\* manual_mode: the answer "q": break, and the summary line
ManualQuit ==
    /\ pc = "manual" /\ di <= Len(chats)
    /\ ~IsDuplicate(chats[di], existing_ids)
    /\ prompted' = Append(prompted, di)
    /\ quit_at' = di
    /\ pc' = "done"
    /\ UNCHANGED <<exc, mode, di, manualVars, autoVars, created,
                   parseVars, fetchVars, postVars>>

\* manual_mode: the answer "n"
ManualSkip ==
    /\ pc = "manual" /\ di <= Len(chats)
    /\ ~IsDuplicate(chats[di], existing_ids)
    /\ prompted' = Append(prompted, di)
    /\ skipped' = skipped + 1
    /\ di' = di + 1
    /\ UNCHANGED <<pc, exc, mode, imported, duplicates, autoVars, created, quit_at,
                   parseVars, fetchVars, postVars>>

\* manual_mode: the answer "y" (the default): import_to_nowledge(chat)
ManualProceed ==
    /\ pc = "manual" /\ di <= Len(chats)
    /\ ~IsDuplicate(chats[di], existing_ids)
    /\ prompted' = Append(prompted, di)
    /\ \E r \in DriverResponses :
         /\ post_resp' = r
         /\ post_result' = ImportToNowledge(r)
         /\ imported' = IF ImportToNowledge(r).success THEN imported + 1 ELSE imported
    /\ created' = Append(created, di)
    /\ di' = di + 1
    /\ UNCHANGED <<pc, exc, mode, skipped, duplicates, autoVars, quit_at,
                   parseVars, fetchVars>>

\* manual_mode: the loop is over, the summary line
ManualDone ==
    /\ pc = "manual" /\ di > Len(chats)
    /\ pc' = "done"
    /\ UNCHANGED <<exc, driverVars, parseVars, fetchVars, postVars>>

\* auto_mode: a record whose thread_id is in existing_ids
AutoDuplicate ==
    /\ pc = "auto" /\ di <= Len(chats)
    /\ IsDuplicate(chats[di], existing_ids)
    /\ duplicate_count' = duplicate_count + 1
    /\ di' = di + 1
    /\ UNCHANGED <<pc, exc, mode, manualVars, success_count, fail_count, errors,
                   created, prompted, quit_at, parseVars, fetchVars, postVars>>

\* variant: a failure is recorded in errors but not counted
AutoCreateFailUncounted ==
    /\ pc = "auto" /\ di <= Len(chats)
    /\ ~IsDuplicate(chats[di], existing_ids)
    /\ \E r \in DriverResponses :
         LET res == ImportToNowledge(r)
         IN  /\ post_resp' = r
             /\ post_result' = res
             /\ success_count' = IF res.success THEN success_count + 1 ELSE success_count
             /\ fail_count' = fail_count
             /\ errors' = IF res.success THEN errors
                          ELSE Append(errors, <<chats[di].title, res.message>>)
    /\ created' = Append(created, di)
    /\ di' = di + 1
    /\ UNCHANGED <<pc, exc, mode, manualVars, duplicate_count, prompted, quit_at,
                   parseVars, fetchVars>>

\* variant: a record whose create failed is tried again
AutoCreateRetries ==
    /\ pc = "auto" /\ di <= Len(chats)
    /\ ~IsDuplicate(chats[di], existing_ids)
    /\ \E r \in DriverResponses :
         LET res == ImportToNowledge(r)
         IN  /\ post_resp' = r
             /\ post_result' = res
             /\ success_count' = IF res.success THEN success_count + 1 ELSE success_count
             /\ fail_count' = IF res.success THEN fail_count ELSE fail_count + 1
             /\ errors' = IF res.success THEN errors
                          ELSE Append(errors, <<chats[di].title, res.message>>)
             /\ di' = IF res.success THEN di + 1 ELSE di
    /\ created' = Append(created, di)
    /\ UNCHANGED <<pc, exc, mode, manualVars, duplicate_count, prompted, quit_at,
                   parseVars, fetchVars>>

\* auto_mode: import_to_nowledge(chat), and the counters
AutoCreate ==
    /\ pc = "auto" /\ di <= Len(chats)
    /\ ~IsDuplicate(chats[di], existing_ids)
    /\ \E r \in DriverResponses :
         LET res == ImportToNowledge(r)
         IN  /\ post_resp' = r
             /\ post_result' = res
             /\ success_count' = IF res.success THEN success_count + 1 ELSE success_count
             /\ fail_count' = IF res.success THEN fail_count ELSE fail_count + 1
             /\ errors' = IF res.success THEN errors
                          ELSE Append(errors, <<chats[di].title, res.message>>)
    /\ created' = Append(created, di)
    /\ di' = di + 1
    /\ UNCHANGED <<pc, exc, mode, manualVars, duplicate_count, prompted, quit_at,
                   parseVars, fetchVars>>

\* auto_mode: the loop is over, the result lines
AutoDone ==
    /\ pc = "auto" /\ di > Len(chats)
    /\ pc' = "done"
    /\ UNCHANGED <<exc, driverVars, parseVars, fetchVars, postVars>>

----------------------------------------------------------------------------
(***************************************************************************)
(* The specifications.  Each starts main() at the stage it is about, in a  *)
(* state the stages before it leave.                                       *)
(***************************************************************************)
NoAnswer == PostAnswer("", 0, "invalid", <<>>)

NotFetched ==
    /\ all_threads = <<>> /\ offset = 0 /\ requests = <<>> /\ responses = <<>>
    /\ fetch_warning = "" /\ existing_ids = {}

NotPosted == post_resp = NoAnswer /\ post_result = NoResult

NotDriven ==
    /\ mode = "" /\ di = 1
    /\ imported = 0 /\ skipped = 0 /\ duplicates = 0
    /\ success_count = 0 /\ fail_count = 0 /\ duplicate_count = 0 /\ errors = <<>>
    /\ created = <<>> /\ prompted = <<>> /\ quit_at = 0

\* main() from the format check to the table of the parsed records
InitParse ==
    /\ pc = "format" /\ exc = NoException
    /\ sentinel \in BOOLEAN
    /\ files \in Directories
    /\ fi = 1 /\ chats = <<>> /\ chat_src = <<>> /\ warned = <<>>
    /\ NotFetched /\ NotPosted /\ NotDriven

NextParse == CheckFormat \/ ParseFile \/ ParseDone

SpecParse == InitParse /\ [][NextParse]_vars

\* files that parse to a record main() can list
ImportFiles ==
    { ObjectFile("a", "T", "2024-01-01", MsgList(<<Msg(Str(<<" ", "a", " ">>), "assistant")>>)),
      ObjectFile("b", ABSENT, "2024-01-01", MsgList(<<Msg(Str(<<"a">>), ABSENT)>>)) }

ChatsOf(dir) == [i \in 1..Len(dir) |-> ParseChatFile(dir[i]).rec]

Parsed(dir) ==
    /\ sentinel = TRUE /\ files = dir /\ fi = Len(dir) + 1
    /\ chats = ChatsOf(dir) /\ chat_src = [i \in 1..Len(dir) |-> i] /\ warned = <<>>

\* main() at `existing_threads = fetch_existing_threads()`
InitFetch ==
    /\ pc = "fetch" /\ exc = NoException
    /\ \E f \in ImportFiles : Parsed(<<f>>)
    /\ NotFetched /\ NotPosted /\ NotDriven

NextFetch == FetchMore \/ FetchLast \/ FetchFails

SpecFetch == InitFetch /\ [][NextFetch]_vars

\* one call of import_to_nowledge
InitCreate ==
    /\ pc = "post" /\ exc = NoException
    /\ \E f \in ImportFiles : Parsed(<<f>>)
    /\ NotFetched /\ NotDriven
    /\ post_resp \in CreateResponses /\ post_result = NoResult

NextCreate == Post

SpecCreate == InitCreate /\ [][NextCreate]_vars

\* main() at the choice of the mode, after a listing of one page
InitDrivers ==
    /\ pc = "mode" /\ exc = NoException
    /\ \E dir \in SeqsUpTo(ImportFiles, MaxChats) : dir # <<>> /\ Parsed(dir)
    /\ \E p \in Pages :
         /\ all_threads = p /\ offset = 0
         /\ requests = <<[limit |-> Limit, offset |-> 0]>>
         /\ responses = <<ListAnswer("response", StatusOK, "object",
                                     [t |-> "list", l |-> p], "false")>>
         /\ fetch_warning = "" /\ existing_ids = ExistingIds(p)
    /\ NotPosted /\ NotDriven

NextDrivers ==
    \/ ChooseMode
    \/ ManualDuplicate \/ ManualQuit \/ ManualSkip \/ ManualProceed \/ ManualDone
    \/ AutoDuplicate \/ AutoCreate \/ AutoDone

SpecDrivers == InitDrivers /\ [][NextDrivers]_vars

----------------------------------------------------------------------------
(***************************************************************************)
(* The drivers' claims, under SpecDrivers.                                 *)
(***************************************************************************)
InSet(i) == chats[i].thread_id \in existing_ids

\* the records before the one the loop is at
Processed == 1..(di - 1)

\* the indexes below n of the records that are not in existing_ids, in input order
RECURSIVE FreshBelow(_)
FreshBelow(n) ==
    IF n <= 1 THEN <<>>
    ELSE IF InSet(n - 1) THEN FreshBelow(n - 1)
    ELSE Append(FreshBelow(n - 1), n - 1)

\* C1: in both drivers a record whose thread_id is in the duplicate-identifier
\* set is never passed to import_to_nowledge; it is only counted as a duplicate.
C1_DuplicateNeverCreated ==
    /\ \A k \in 1..Len(created) : ~InSet(created[k])
    /\ \A k \in 1..Len(prompted) : ~InSet(prompted[k])
    /\ mode = "1" => duplicates = Cardinality({ i \in Processed : InSet(i) })
    /\ mode = "2" => duplicate_count = Cardinality({ i \in Processed : InSet(i) })

C1_Witness ==
    /\ mode = "1" /\ pc = "done" /\ quit_at = 0
    /\ duplicates > 0 /\ Len(created) > 0

\* C2: auto_mode: after the first k records the three counters sum to k, and
\* when the loop has finished they sum to the number of input records, whatever
\* the outcomes of the creates.
C2_AutoCountersSum ==
    mode = "2" =>
        /\ success_count + duplicate_count + fail_count = di - 1
        /\ pc = "done" => success_count + duplicate_count + fail_count = Len(chats)
        /\ Len(errors) = fail_count

C2_Witness ==
    /\ mode = "2" /\ pc = "done"
    /\ success_count > 0 /\ duplicate_count > 0 /\ fail_count > 0

\* C3: manual_mode: imported + skipped + duplicates is at most the number of
\* input records in every state, equals it at the end only if no "quit" was
\* issued, and a proceed whose create fails changes none of the three counters.
C3_ManualCounters ==
    /\ [](mode = "1" =>
            /\ imported + skipped + duplicates <= Len(chats)
            /\ (pc = "done" /\ imported + skipped + duplicates = Len(chats))
                  => quit_at = 0)
    /\ [][(mode = "1" /\ Len(created') > Len(created) /\ ~post_result'.success)
            => UNCHANGED <<imported, skipped, duplicates>>]_vars

C3_Witness ==
    /\ mode = "1" /\ pc = "done" /\ quit_at = 0
    /\ Len(created) > imported /\ imported > 0 /\ skipped > 0
    /\ imported + skipped + duplicates < Len(chats)

\* C6: no retries and no abort on an upload failure: a driver passes a record to
\* import_to_nowledge at most once, in input order, and auto_mode passes every
\* record that is not a duplicate exactly once, whatever the creates before it
\* returned.
C6_NoRetryNoAbort ==
    /\ \A j, k \in 1..Len(created) : j < k => created[j] < created[k]
    /\ \A k \in 1..Len(created) : created[k] \in Processed
    /\ mode = "2" => created = FreshBelow(di)
    /\ (mode = "2" /\ pc = "done") => created = FreshBelow(Len(chats) + 1)

C6_Witness ==
    /\ mode = "2" /\ pc = "done"
    /\ Len(created) >= 2 /\ fail_count > 0 /\ post_result.success

\* C10: manual_mode: once the user answers quit at a record the loop is over:
\* that record and the later ones are not submitted and not counted, no later
\* record is prompted for, and the counters are those reached before the quit.
C10_QuitEndsLoop ==
    quit_at # 0 =>
        /\ pc = "done" /\ di = quit_at
        /\ \A k \in 1..Len(prompted) : prompted[k] <= quit_at
        /\ \A k \in 1..Len(created) : created[k] < quit_at
        /\ duplicates = Cardinality({ i \in 1..(quit_at - 1) : InSet(i) })
        /\ skipped + Len(created) = Len(prompted) - 1
        /\ imported <= Len(created)

C10_Witness ==
    /\ quit_at # 0 /\ pc = "done" /\ imported > 0
    /\ \E i \in (quit_at + 1)..Len(chats) : InSet(i)

----------------------------------------------------------------------------
(***************************************************************************)
(* The parser's claims, under SpecParse.                                   *)
(***************************************************************************)
\* a content with a character that is no whitespace, and that content trimmed
NonBlank(s) == \E i \in 1..Len(s) : ~IsSpace(s[i])

Trimmed(s) ==
    LET solid == { i \in 1..Len(s) : ~IsSpace(s[i]) }
        first == CHOOSE i \in solid : \A j \in solid : i <= j
        last  == CHOOSE i \in solid : \A j \in solid : j <= i
    IN  SubSeq(s, first, last)

\* a JSON object whose message list is absent, empty, or holds only messages
\* whose content is missing, empty or whitespace
NoContentFile(f) ==
    /\ f.kind = "object"
    /\ f.messages.t \in {"absent", "list"}
    /\ \A k \in 1..Len(f.messages.l) :
         \/ f.messages.l[k].content.t = "absent"
         \/ /\ f.messages.l[k].content.t = "str"
            /\ ~NonBlank(f.messages.l[k].content.s)

\* the positions, in source order, of the messages of f that have content
RECURSIVE SolidBelow(_, _)
SolidBelow(f, n) ==
    IF n <= 1 THEN <<>>
    ELSE LET c == f.messages.l[n - 1].content
         IN  IF c.t = "str" /\ NonBlank(c.s)
             THEN Append(SolidBelow(f, n - 1), n - 1)
             ELSE SolidBelow(f, n - 1)

\* C7: a file with no message of non-empty trimmed content gives no record (and
\* no exception); a record handed on has at least one message, and its messages
\* are the source's messages of non-empty trimmed content, trimmed, in source order.
C7_NoContentNoRecord ==
    /\ \A i \in 1..Len(files) :
         NoContentFile(files[i]) =>
            /\ \A k \in 1..Len(chat_src) : chat_src[k] # i
            /\ ~(pc = "aborted" /\ exc.at = "parse" /\ fi = i)
    /\ Len(chat_src) = Len(chats)
    /\ \A k \in 1..Len(chats) :
         LET f == files[chat_src[k]]
             at == SolidBelow(f, Len(f.messages.l) + 1)
             ms == chats[k].messages
         IN  /\ ms # <<>>
             /\ Len(ms) = Len(at)
             /\ \A m \in 1..Len(ms) :
                  /\ ms[m].content # <<>>
                  /\ ms[m].content = Trimmed(f.messages.l[at[m]].content.s)

C7_Witness ==
    /\ pc = "fetch" /\ Len(files) = 2
    /\ NoContentFile(files[1]) /\ files[1].messages.l # <<>>
    /\ Len(chats) = 1 /\ Len(chats[1].messages) = 2
    /\ Len(files[2].messages.l) = 4

IsMalformed(f) ==
    \/ f.kind # "object"
    \/ f.id = ABSENT
    \/ f.messages.t = "null"
    \/ \E k \in 1..Len(f.messages.l) : f.messages.l[k].content.t = "null"

\* C8: a parse error never aborts the run: for a file that is malformed or lacks
\* a required field parse_chat_file returns None without raising, and the files
\* after it are still parsed.
C8_ParseErrorNeverAborts ==
    \A i \in 1..Len(files) :
        IsMalformed(files[i]) => ~(pc = "aborted" /\ exc.at = "parse" /\ fi = i)

----------------------------------------------------------------------------
(***************************************************************************)
(* The listing's claims, under SpecFetch.                                  *)
(***************************************************************************)
ListingFailed == pc = "mode" /\ fetch_warning # ""

\* the identifiers of the threads of the first n answers
IdsOfAnswers(n) ==
    UNION { { IF r.threads.l[k].has_id THEN r.threads.l[k].id ELSE <<>> :
                k \in 1..Len(r.threads.l) } : r \in { responses[j] : j \in 1..n } }

RECURSIVE ThreadsOfAnswers(_)
ThreadsOfAnswers(n) ==
    IF n = 0 THEN <<>>
    ELSE ThreadsOfAnswers(n - 1)
           \o (IF responses[n].threads.t = "list" THEN responses[n].threads.l ELSE <<>>)

GoodPage(r) == r.kind = "response" /\ r.status = 200 /\ r.body = "object"

\* C9: when every page is answered 200 with has_more true on the first k-1 pages
\* and false or absent on page k, exactly k GETs are made, with limit 100 and
\* offsets 0, 100, ..., 100*(k-1), none after page k, and the result is the
\* concatenation in order of the threads of the k pages.
C9_PagesUntilNoMore ==
    /\ Len(requests) = Len(responses)
    /\ \A j \in 1..Len(requests) :
         requests[j] = [limit |-> 100, offset |-> 100 * (j - 1)]
    /\ \A j \in 1..(Len(responses) - 1) :
         GoodPage(responses[j]) /\ responses[j].has_more = "true"
    /\ (responses # <<>> /\ GoodPage(responses[Len(responses)])
          /\ responses[Len(responses)].has_more # "true")
          => /\ pc = "mode" /\ fetch_warning = ""
             /\ all_threads = ThreadsOfAnswers(Len(responses))
    /\ (pc = "fetch" /\ responses # <<>>) =>
          /\ GoodPage(responses[Len(responses)])
          /\ responses[Len(responses)].has_more = "true"

C9_Witness ==
    /\ pc = "mode" /\ fetch_warning = ""
    /\ Len(requests) = 2 /\ requests[2].offset = 100
    /\ Len(responses[1].threads.l) = 2 /\ Len(responses[2].threads.l) = 1
    /\ Len(all_threads) = 3

----------------------------------------------------------------------------
(***************************************************************************)
(* The create operation's claim, under SpecCreate.                         *)
(***************************************************************************)
\* C5 as stated: success is true exactly when the server answers with a
\* success-class (2xx) response.
C5_SuccessIffSuccessClass ==
    pc = "posted" =>
        (post_result.success <=>
            (post_resp.kind = "response" /\ post_resp.status \in 200..299))

\* C5 as amended: success is true exactly when the server answers 200 with a body
\* that is a JSON object whose "thread" is absent or an object; any other status
\* gives false with the status code and the first 200 characters of the body, a
\* 200 whose body cannot be read gives false, and so do a connection failure, a
\* timeout and any other exception, each with its own message.
C5_SuccessIffOkAndReadable ==
    pc = "posted" =>
        /\ post_result.success <=>
             /\ post_resp.kind = "response" /\ post_resp.status = 200
             /\ post_resp.json \in {"thread_id", "thread_noid", "no_thread"}
        /\ post_result.success => post_result.message.kind = "created"
        /\ (post_resp.kind = "response" /\ post_resp.status # 200) =>
             /\ post_result.message.kind = "api_error"
             /\ post_result.message.status = post_resp.status
             /\ Len(post_result.message.text) <= 200
             /\ \A i \in 1..Len(post_resp.text) :
                  i <= 200 => /\ i <= Len(post_result.message.text)
                              /\ post_result.message.text[i] = post_resp.text[i]
        /\ post_resp.kind \in {"ConnectionError", "ConnectTimeout"} =>
             post_result.message.kind = "connection"
        /\ post_resp.kind = "ReadTimeout" => post_result.message.kind = "timeout"
        /\ (\/ post_resp.kind = "OtherException"
            \/ /\ post_resp.kind = "response" /\ post_resp.status = 200
               /\ post_resp.json \in {"thread_null", "array", "invalid"})
             => post_result.message.kind = "unknown"

C5_Witness ==
    /\ pc = "posted" /\ post_resp.kind = "response" /\ post_resp.status = 500
    /\ Len(post_resp.text) > 200 /\ ~post_result.success
    /\ Len(post_result.message.text) = 200
=============================================================================
